---- MODULE Spec2Model ----
(***************************************************************************)
(* Model of the scan4care POST /analyze pipeline.  The repository holds    *)
(* four revisions of the same server (src/server.js, src/unnamed/part_000, *)
(* part_001, part_002); the variable `variant` selects which one runs.     *)
(* Each request is a small state machine whose steps are the code between  *)
(* two awaits; the files in the upload directory are the only shared       *)
(* state.  log[r] records, in order, every externally visible effect of    *)
(* request r; gone is the set of temp files deleted from outside.          *)
(***************************************************************************)
EXTENDS Integers, Sequences, FiniteSets, TLC

VARIABLES variant, env, pc, reqFiles, reqBody, problemPath, selfiePath,
          fs, log, gone

vars == <<variant, env, pc, reqFiles, reqBody, problemPath, selfiePath,
          fs, log, gone>>

(* ------------------------------ bounds -------------------------------- *)

\* number of requests in a run of Spec
MaxReq == 1

\* number of requests handled concurrently in a run of SpecConc
MaxConc == 2

\* number of temp files an outside process may delete during a run
MaxVanish == 1

\* the requests of the run
Reqs == DOMAIN pc

(* --------------------------- the revisions ---------------------------- *)

Variants == {"server", "part_000", "part_001", "part_002"}

\* process.env as the code reads it: NODE_ENV === "production", and whether
\* TELEGRAM_BOT_TOKEN, TELEGRAM_CHAT_ID and GEMINI_API_KEY are set
EnvProfiles ==
  { [production |-> TRUE,  token |-> TRUE,  chat |-> TRUE,  key |-> TRUE],
    [production |-> TRUE,  token |-> FALSE, chat |-> TRUE,  key |-> TRUE],
    [production |-> TRUE,  token |-> TRUE,  chat |-> FALSE, key |-> TRUE],
    [production |-> FALSE, token |-> TRUE,  chat |-> TRUE,  key |-> TRUE],
    [production |-> TRUE,  token |-> TRUE,  chat |-> TRUE,  key |-> FALSE] }

(* ----------------------------- requests ------------------------------- *)

Fields == {"image", "selfie"}

NoFile == <<>>
NoPath == <<>>
Absent == "<absent>"

Jpeg == <<"image", "jpeg">>
Plain == <<"text", "plain">>

\* one multipart part: present or not, its MIME type, its size in MB
NoUpload == [present |-> FALSE, mime |-> NoFile, size |-> 0]
UploadChoices ==
  { NoUpload,
    [present |-> TRUE, mime |-> Jpeg,  size |-> 1],
    [present |-> TRUE, mime |-> Jpeg,  size |-> 3],
    [present |-> TRUE, mime |-> Jpeg,  size |-> 6],
    [present |-> TRUE, mime |-> Plain, size |-> 1] }

Consents == {"true", "TRUE", "false", Absent}

\* a part that passes every revision's upload checks
GoodUpload == [present |-> TRUE, mime |-> Jpeg, size |-> 1]

\* the requests tried: a multipart form in which at most one of the two parts
\* is missing, too large or not an image, and a request that is not multipart
RequestInputs ==
  { [multipart |-> TRUE, image |-> i, selfie |-> s, consent |-> c] :
      i \in UploadChoices, s \in {NoUpload, GoodUpload}, c \in Consents }
  \cup { [multipart |-> TRUE, image |-> i, selfie |-> s, consent |-> c] :
      i \in {NoUpload, GoodUpload}, s \in UploadChoices, c \in Consents }
  \cup { [multipart |-> FALSE, image |-> NoUpload, selfie |-> NoUpload,
          consent |-> Absent] }

\* every upload is stored under the name of the first request's file
SharedName(r, f) == <<1, f>>

FileOf(r, f) == <<r, f>>

(* ----------------------- effects on (fs, log) ------------------------- *)
\* A handler segment is a fold over a record s = [fs, log, err]: the files on
\* disk, the request's log, and the exception in flight ("" when none).
\* A log entry is <<kind, argument, result, detail>>, all strings.

Emit(s, kind, arg, res, detail) ==
  [s EXCEPT !.log = Append(@, <<kind, arg, res, detail>>)]

Throw(s, e) == [s EXCEPT !.err = e]

Caught(s) == [s EXCEPT !.err = ""]

\* res.status(status).json({success, ...}); skipped when an exception is in flight
Respond(s, status, shape, content) ==
  IF s.err # "" THEN s ELSE Emit(s, "respond", status, shape, content)

existsSync(s, path) == path \in s.fs

\* fs.unlinkSync(path): removes the file, or throws ENOENT when it is not there
unlinkSync(s, path) ==
  IF s.err # "" THEN s
  ELSE IF existsSync(s, path)
    THEN Emit([s EXCEPT !.fs = @ \ {path}], "unlink", path[2], "ok", "")
    ELSE Throw(Emit(s, "unlink", path[2], "ENOENT", ""), "ENOENT")

\* a bug: the cleanup line dropped
NoUnlink(s, path) == s

\* a bug: the existsSync guard dropped
UnguardedUnlink(s, path) ==
  IF path # NoPath THEN unlinkSync(s, path) ELSE s

\* if (path && fs.existsSync(path)) fs.unlinkSync(path);
GuardedUnlink(s, path) ==
  IF path # NoPath /\ existsSync(s, path) THEN unlinkSync(s, path) ELSE s

(* ------------------------------ multer -------------------------------- *)

\* the revisions that configure limits and a fileFilter (part_001 has neither)
HasUploadChecks(v) == v # "part_001"

\* limits.fileSize, in MB
FileSizeLimit(v) == IF v = "server" THEN 5 ELSE 2

\* file.mimetype.startsWith("image/")
fileFilter(mime) == mime[1] = "image"

\* multer handles one part: the filter runs before anything is written; a part
\* over the limit is cut off after its first bytes are on disk
MulterPart(v, r, s, f, up) ==
  IF s.err # "" \/ ~up.present THEN s
  ELSE IF HasUploadChecks(v) /\ ~fileFilter(up.mime)
    THEN Throw(Emit(s, "reject", f, "fileFilter", ""), "Only image files allowed")
  ELSE IF HasUploadChecks(v) /\ up.size > FileSizeLimit(v)
    THEN Throw(Emit([s EXCEPT !.fs = @ \cup {FileOf(r, f)}],
                    "write", f, "partial", ""), "LIMIT_FILE_SIZE")
  ELSE Emit([s EXCEPT !.fs = @ \cup {FileOf(r, f)}], "write", f, "ok", "")

\* upload.fields([{name: "image"}, {name: "selfie"}])
MulterUpload(v, r, s, in) ==
  MulterPart(v, r, MulterPart(v, r, s, "image", in.image), "selfie", in.selfie)

\* multer on error: removes what it wrote, then next(err); express answers an
\* error without a status with 500 and an HTML body
MulterRemove(s, path) ==
  IF existsSync(s, path)
    THEN Emit([s EXCEPT !.fs = @ \ {path}], "multerRemove", path[2], "ok", "")
    ELSE s

MulterFail(r, s) ==
  Emit(MulterRemove(MulterRemove(Caught(s), FileOf(r, "image")), FileOf(r, "selfie")),
       "respond", "500", "html", s.err)

(* ----------------------------- notifier ------------------------------- *)

\* the early returns at the top of sendTelegramMessage / sendTelegramPhoto
NotifyEnabled(v, e) ==
  CASE v = "part_001" -> TRUE
    [] v = "part_002" -> e.production /\ e.token /\ e.chat
    [] OTHER -> e.production

\* part_002 has no sendTelegramPhoto
HasPhotoNotify(v) == v # "part_002"

\* the results fetch can have: with a credential missing the endpoint refuses
FetchResults(e) == IF e.token /\ e.chat THEN {"ok", "fail"} ELSE {"fail"}

\* a bug: the error of a failed send reaches the caller
sendTelegramThrowing(v, e, s, kind, path, res) ==
  IF ~NotifyEnabled(v, e) THEN s
  ELSE IF res = "ok" /\ (path = NoPath \/ existsSync(s, path))
    THEN Emit(s, kind, IF path = NoPath THEN "" ELSE path[2], "ok", "")
    ELSE Throw(Emit(s, kind, IF path = NoPath THEN "" ELSE path[2], "fail", ""),
               "fetch failed")

\* a bug: a photo is removed as soon as it has been delivered
sendTelegramReleasing(v, e, s, kind, path, res) ==
  IF ~NotifyEnabled(v, e) THEN s
  ELSE IF res = "ok" /\ (path = NoPath \/ existsSync(s, path))
    THEN LET t == Emit(s, kind, IF path = NoPath THEN "" ELSE path[2], "ok", "")
         IN IF path = NoPath THEN t ELSE unlinkSync(t, path)
    ELSE Emit(s, kind, IF path = NoPath THEN "" ELSE path[2], "fail", "")

\* sendTelegramMessage (path = NoPath) and sendTelegramPhoto: no call when
\* not enabled; otherwise one call whose failure is caught and logged
sendTelegram(v, e, s, kind, path, res) ==
  IF ~NotifyEnabled(v, e) THEN s
  ELSE IF res = "ok" /\ (path = NoPath \/ existsSync(s, path))
    THEN Emit(s, kind, IF path = NoPath THEN "" ELSE path[2], "ok", "")
    ELSE Emit(s, kind, IF path = NoPath THEN "" ELSE path[2], "fail", "")

(* ------------------------- inference client --------------------------- *)

\* part_002 alone checks GEMINI_API_KEY before doing anything
ChecksApiKey(v) == v = "part_002"

\* the message of the error analyzeImage throws when generateContent fails
InferenceError(v) ==
  CASE v = "part_000" -> "AI failed"
    [] v = "part_002" -> "AI analysis failed"
    [] OTHER -> "generateContent failed"

\* without a key the service refuses the call
\* a bug: the inference call never settles
NeverReturns(e) == {}

GenerateResults(e) == IF e.key THEN {"ok", "fail"} ELSE {"fail"}

\* analyzeImage up to its await: the key check (part_002), readFileSync, and the
\* call of model.generateContent
analyzeImage(v, e, s, path) ==
  LET s0 == Emit(s, "analyzeImage", path[2], "", "")
  IN IF ChecksApiKey(v) /\ ~e.key
       THEN Throw(s0, "GEMINI_API_KEY missing")
     ELSE IF ~existsSync(s0, path)
       THEN Throw(Emit(s0, "readFile", path[2], "ENOENT", ""), "ENOENT")
     ELSE Emit(Emit(s0, "readFile", path[2], "ok", ""),
               "generateContent", path[2], "call", "")

\* the await of generateContent returns: the text, or the error rethrown
generateContent(v, s, path, res) ==
  IF res = "ok"
    THEN Emit(s, "generateContent", path[2], "ok", "")
    ELSE Throw(Emit(s, "generateContent", path[2], "fail", ""), InferenceError(v))

(* ------------------------- request orchestrator ----------------------- *)

AiText == "aiText"
Placeholder == "AI analysis failed. Please try again later."

\* part_000 and part_002 clean up in a finally block; server.js and part_001
\* clean up at the end of the try block and again in the catch block
CleanupInFinally(v) == v \in {"part_000", "part_002"}

\* part_001 catches the inference error and answers with a placeholder
DegradedPolicy(v) == v = "part_001"

\* !problemImage || !selfie  (req.files?.image?.[0], req.files?.selfie?.[0])
ImagesPresent(files) ==
  files.defined /\ files.image # NoFile /\ files.selfie # NoFile

\* a bug: anything but a refusal counts as consent
ConsentNotRefused(body) == body.consent # "false"

\* req.body.consent !== "true"
ConsentGiven(body) == body.consent = "true"

MissingImagesMessage(v) ==
  IF v = "part_001" THEN "Images missing" ELSE "Both images are required"

\* a bug: the success response sent before the unguarded cleanup lines
TryTailRespondFirst(v, s, pp, sp, ai) ==
  IF CleanupInFinally(v)
    THEN Respond(s, "200", "success", ai)
    ELSE unlinkSync(unlinkSync(Respond(s, "200", "success", ai), pp), sp)

\* the end of the try block, once aiResponse is known
TryTail(v, s, pp, sp, ai) ==
  IF CleanupInFinally(v)
    THEN Respond(s, "200", "success", ai)
    ELSE Respond(unlinkSync(unlinkSync(s, pp), sp), "200", "success", ai)

\* catch (err) { ... }
CatchBlock(v, s, pp, sp) ==
  LET msg == s.err
      c == Caught(s)
  IN IF CleanupInFinally(v)
       THEN Respond(c, "500", "error", IF v = "part_002" THEN msg ELSE "Server error")
       ELSE Respond(GuardedUnlink(GuardedUnlink(c, pp), sp),
                    "500", "error", "Server error")

\* finally { ... }: runs whatever the try and catch blocks did
FinallyBlock(s, pp, sp) ==
  LET t == GuardedUnlink(GuardedUnlink(Caught(s), pp), sp)
  IN IF t.err # "" THEN t ELSE Throw(t, s.err)

\* the way out of the handler from the try block: catch when an exception is in
\* flight, finally where there is one; an exception that leaves the handler is
\* an unhandled rejection
Complete(v, s, pp, sp) ==
  LET c == IF s.err # "" THEN CatchBlock(v, s, pp, sp) ELSE s
      f == IF CleanupInFinally(v) THEN FinallyBlock(c, pp, sp) ELSE c
  IN IF f.err # "" THEN Emit(Caught(f), "unhandledRejection", "", f.err, "") ELSE f

\* the code after `await analyzeImage(...)`: part_001 turns an inference error
\* into the placeholder, the others let it reach the catch block
AfterAnalyze(v, s, pp, sp) ==
  IF s.err = "" THEN Complete(v, TryTail(v, s, pp, sp, AiText), pp, sp)
  ELSE IF DegradedPolicy(v)
    THEN Complete(v, TryTail(v, Caught(s), pp, sp, Placeholder), pp, sp)
  ELSE Complete(v, s, pp, sp)

\* the handler from its start to its first await
Validate(v, s, files, body) ==
  IF v = "part_001" /\ ~files.defined
    THEN Throw(s, "TypeError")
  ELSE IF ~ImagesPresent(files)
    THEN Respond(s, "400", "error", MissingImagesMessage(v))
  ELSE IF ~ConsentGiven(body)
    THEN Respond(s, "403", "error", "Consent required")
  ELSE s

\* a bug: the selfie handed to the inference client
SelfieArg(r) == selfiePath[r]

\* the first argument of analyzeImage(problemPath, problemImage.mimetype, userPrompt)
AnalyzeArg(r) == problemPath[r]

(* ------------------------------ actions ------------------------------- *)

St(r) == [fs |-> fs, log |-> log[r], err |-> ""]

Responded(s) == \E i \in 1..Len(s.log) : s.log[i][1] = "respond"

Advance(r, s, next) ==
  /\ fs' = s.fs
  /\ log' = [log EXCEPT ![r] = s.log]
  /\ pc' = [pc EXCEPT ![r] = next]

NoFiles == [defined |-> FALSE, image |-> NoFile, selfie |-> NoFile]
NoBody == [defined |-> FALSE, consent |-> Absent]

InitWith(n) ==
  /\ variant \in Variants
  /\ env \in EnvProfiles
  /\ pc = [r \in 1..n |-> "new"]
  /\ reqFiles = [r \in 1..n |-> NoFiles]
  /\ reqBody = [r \in 1..n |-> NoBody]
  /\ problemPath = [r \in 1..n |-> NoPath]
  /\ selfiePath = [r \in 1..n |-> NoPath]
  /\ fs = {}
  /\ log = [r \in 1..n |-> <<>>]
  /\ gone = {}

Init == InitWith(MaxReq)

InitConc == InitWith(MaxConc)

\* a request arrives and the upload middleware runs
Upload(r) ==
  /\ pc[r] = "new"
  /\ \E in \in RequestInputs :
       LET s == IF in.multipart THEN MulterUpload(variant, r, St(r), in) ELSE St(r)
       IN /\ Advance(r, Caught(s), IF s.err # "" THEN "aborting" ELSE "handler")
          /\ reqFiles' = [reqFiles EXCEPT ![r] =
               IF in.multipart /\ s.err = ""
                 THEN [defined |-> TRUE, image |-> in.image.mime,
                       selfie |-> in.selfie.mime]
                 ELSE NoFiles]
          /\ reqBody' = [reqBody EXCEPT ![r] =
               IF in.multipart /\ s.err = ""
                 THEN [defined |-> TRUE, consent |-> in.consent]
                 ELSE NoBody]
  /\ UNCHANGED <<variant, env, problemPath, selfiePath, gone>>

\* the upload failed: multer removes its files and express answers
MulterAbort(r) ==
  /\ pc[r] = "aborting"
  /\ Advance(r, MulterFail(r, St(r)), "done")
  /\ UNCHANGED <<variant, env, reqFiles, reqBody, problemPath, selfiePath, gone>>

\* the handler starts: validation, then the paths are taken
HandlerStart(r) ==
  /\ pc[r] = "handler"
  /\ LET s == Validate(variant, St(r), reqFiles[r], reqBody[r])
     IN IF s.err # "" \/ Responded(s)
          THEN /\ Advance(r, Complete(variant, s, NoPath, NoPath), "done")
               /\ UNCHANGED <<problemPath, selfiePath>>
          ELSE /\ Advance(r, s, "text")
               /\ problemPath' = [problemPath EXCEPT ![r] = FileOf(r, "image")]
               /\ selfiePath' = [selfiePath EXCEPT ![r] = FileOf(r, "selfie")]
  /\ UNCHANGED <<variant, env, reqFiles, reqBody, gone>>

\* s is the state after an awaited call: go on, or leave through catch
Continue(r, s, next) ==
  IF s.err # ""
    THEN Advance(r, Complete(variant, s, problemPath[r], selfiePath[r]), "done")
    ELSE Advance(r, s, next)

\* await sendTelegramMessage(...)
NotifyText(r) ==
  /\ pc[r] = "text"
  /\ \E res \in FetchResults(env) :
       Continue(r, sendTelegram(variant, env, St(r), "sendMessage", NoPath, res),
                IF HasPhotoNotify(variant) THEN "photo1" ELSE "analyze")
  /\ UNCHANGED <<variant, env, reqFiles, reqBody, problemPath, selfiePath, gone>>

\* the selfie is sent first and the problem image second
PhotoPathSwapped(r) == IF pc[r] = "photo1" THEN selfiePath[r] ELSE problemPath[r]

\* the file each photo notification sends: the problem image first, the selfie second
PhotoPath(r) == IF pc[r] = "photo1" THEN problemPath[r] ELSE selfiePath[r]

\* await sendTelegramPhoto(problemPath, ...); await sendTelegramPhoto(selfiePath, ...)
NotifyPhoto(r) ==
  /\ pc[r] \in {"photo1", "photo2"}
  /\ \E res \in FetchResults(env) :
       Continue(r, sendTelegram(variant, env, St(r), "sendPhoto", PhotoPath(r), res),
                IF pc[r] = "photo1" THEN "photo2" ELSE "analyze")
  /\ UNCHANGED <<variant, env, reqFiles, reqBody, problemPath, selfiePath, gone>>

\* analyzeImage is called and runs to its await; an exception it throws before
\* that is handled at once
AnalyzeStart(r) ==
  /\ pc[r] = "analyze"
  /\ LET s == analyzeImage(variant, env, St(r), AnalyzeArg(r))
     IN IF s.err # ""
          THEN Advance(r, AfterAnalyze(variant, s, problemPath[r], selfiePath[r]), "done")
          ELSE Advance(r, s, "generating")
  /\ UNCHANGED <<variant, env, reqFiles, reqBody, problemPath, selfiePath, gone>>

\* generateContent returns or fails; the handler runs to its end
GenerateDone(r) ==
  /\ pc[r] = "generating"
  /\ \E res \in GenerateResults(env) :
       Advance(r, AfterAnalyze(variant,
                               generateContent(variant, St(r), AnalyzeArg(r), res),
                               problemPath[r], selfiePath[r]), "done")
  /\ UNCHANGED <<variant, env, reqFiles, reqBody, problemPath, selfiePath, gone>>

\* something outside the server deletes a temp file of a request whose handler
\* is waiting on one of its calls
ExternalRemove(r) ==
  /\ pc[r] \in {"text", "photo1", "photo2", "analyze", "generating"}
  /\ Cardinality(gone) < MaxVanish
  /\ \E f \in Fields :
       /\ FileOf(r, f) \in fs
       /\ fs' = fs \ {FileOf(r, f)}
       /\ gone' = gone \cup {FileOf(r, f)}
  /\ UNCHANGED <<variant, env, pc, reqFiles, reqBody, problemPath, selfiePath, log>>

Next ==
  \E r \in Reqs :
    \/ Upload(r)
    \/ MulterAbort(r)
    \/ HandlerStart(r)
    \/ NotifyText(r)
    \/ NotifyPhoto(r)
    \/ AnalyzeStart(r)
    \/ GenerateDone(r)
    \/ ExternalRemove(r)

Spec == Init /\ [][Next]_vars

\* several requests whose handlers interleave at every await
SpecConc == InitConc /\ [][Next]_vars

\* every await of a handler eventually settles: the notification fetches and
\* the inference call return or fail, and the event loop then resumes the handler
HandlerStep(r) ==
  HandlerStart(r) \/ NotifyText(r) \/ NotifyPhoto(r) \/ AnalyzeStart(r) \/ GenerateDone(r)

SpecFair == Spec /\ \A r \in 1..MaxReq : WF_vars(HandlerStep(r))

(* --------------------- reading a request's log ------------------------ *)

Done(r) == pc[r] = "done"

Entries(r, kinds) == SelectSeq(log[r], LAMBDA e : e[1] \in kinds)

Count(r, kind, arg, res) ==
  Cardinality({i \in 1..Len(log[r]) :
     log[r][i][1] = kind /\ log[r][i][2] = arg /\ log[r][i][3] = res})

Has(r, kind) == \E i \in 1..Len(log[r]) : log[r][i][1] = kind

HasResult(r, kind, res) ==
  \E i \in 1..Len(log[r]) : log[r][i][1] = kind /\ log[r][i][3] = res

\* the responses sent for r, in order, as <<status, shape, content>>
Responses(r) ==
  LET rs == Entries(r, {"respond"})
  IN [i \in 1..Len(rs) |-> <<rs[i][2], rs[i][3], rs[i][4]>>]

\* the unlinkSync calls made on r's file f, whatever their result
UnlinkCount(r, f) == Count(r, "unlink", f, "ok") + Count(r, "unlink", f, "ENOENT")

\* the request got past the upload middleware into the handler
ReachedHandler(r) ==
  pc[r] \notin {"new", "aborting"} /\ ~HasResult(r, "respond", "html")

BothImages(r) ==
  reqFiles[r].defined /\ reqFiles[r].image # NoFile /\ reqFiles[r].selfie # NoFile

\* an accepted request: both image fields present and consent equal to "true"
Accepted(r) == ReachedHandler(r) /\ BothImages(r) /\ reqBody[r].consent = "true"

NotifyKinds == {"sendMessage", "sendPhoto"}
InferenceKinds == {"analyzeImage", "readFile", "generateContent"}

NoOutboundCall(r) == Entries(r, NotifyKinds \cup InferenceKinds) = <<>>

(* ------------------------------ claims -------------------------------- *)

\* C1: once the handler of an accepted request has finished and answered,
\* neither its problem image nor its selfie is in the temp store, whatever the
\* notification calls and the inference call did.
C1_AcceptedFilesGone ==
  \A r \in Reqs :
    Done(r) /\ Accepted(r) =>
      /\ Responses(r) # <<>>
      /\ FileOf(r, "image") \notin fs
      /\ FileOf(r, "selfie") \notin fs

\* C1 witness: an accepted request finished after a failed notification and a
\* failed inference call, both files having been unlinked.
C1_Witness ==
  \E r \in Reqs :
    /\ Done(r) /\ Accepted(r)
    /\ HasResult(r, "sendPhoto", "fail")
    /\ HasResult(r, "generateContent", "fail")
    /\ Count(r, "unlink", "image", "ok") = 1
    /\ Count(r, "unlink", "selfie", "ok") = 1

\* C2: no uploaded image survives the end of request handling, whatever the
\* outcome (400 and 403 rejections included): when handling of a request has
\* ended none of its files is in the temp store.
C2_NoUploadSurvives ==
  \A r \in Reqs : Done(r) => \A f \in Fields : FileOf(r, f) \notin fs

\* C3: a request that lacks the image or the selfie field is answered 400 with
\* an error body, and no file of it is ever written to the temp store.
C3_MissingImageNoWrite ==
  \A r \in Reqs :
    ReachedHandler(r) /\ ~BothImages(r) =>
      /\ ~Has(r, "write")
      /\ Done(r) => /\ Len(Responses(r)) = 1
                    /\ Responses(r)[1][1] = "400"
                    /\ Responses(r)[1][2] = "error"

\* C4: a request with both images whose consent is absent or anything but the
\* string "true" is answered 403, and at no point is a notification call or an
\* inference call made for it.
C4_NoConsentNoCalls ==
  \A r \in Reqs :
    ReachedHandler(r) /\ BothImages(r) /\ reqBody[r].consent # "true" =>
      /\ NoOutboundCall(r)
      /\ pc[r] \in {"handler", "done"}
      /\ Done(r) => /\ Len(Responses(r)) = 1
                    /\ Responses(r)[1][1] = "403"

\* C4 witness: a request with both images and consent "TRUE" was answered 403.
C4_Witness ==
  \E r \in Reqs :
    /\ Done(r) /\ BothImages(r) /\ reqBody[r].consent = "TRUE"
    /\ Responses(r) = << <<"403", "error", "Consent required">> >>

Gone(r) == {f \in Fields : FileOf(r, f) \in gone}

\* the inputs of a run of r with the results of its notification calls left
\* out: what arrived, was read and was generated, in order
MaskedInputs(r) ==
  LET es == SelectSeq(log[r],
              LAMBDA e : e[1] \notin {"respond", "unlink", "unhandledRejection"})
  IN [i \in 1..Len(es) |->
        IF es[i][1] \in NotifyKinds THEN <<es[i][1], es[i][2], "", "">> ELSE es[i]]

\* C6: a failing notification call never changes the HTTP response: an
\* accepted request always goes on to the inference call, and two accepted
\* requests whose runs differ only in the results of their notification calls
\* get the same status and body.
C6_NotificationNeverChangesResponse ==
  /\ \A r \in Reqs :
       Done(r) /\ Accepted(r) => Count(r, "analyzeImage", "image", "") = 1
  /\ \A r1, r2 \in Reqs :
       /\ Done(r1) /\ Accepted(r1)
       /\ Done(r2) /\ Accepted(r2)
       /\ MaskedInputs(r1) = MaskedInputs(r2)
       /\ Gone(r1) = Gone(r2)
       => Responses(r1) = Responses(r2)

\* C6 witness: two accepted requests, one with all three notifications failed
\* and one with all three delivered, finished with the same 200 response.
C6_Witness ==
  \E r1, r2 \in Reqs :
    /\ Done(r1) /\ Accepted(r1) /\ Done(r2) /\ Accepted(r2)
    /\ Len(Entries(r1, NotifyKinds)) = 3
    /\ \A i \in 1..3 : Entries(r1, NotifyKinds)[i][3] = "fail"
    /\ \A i \in 1..3 : Entries(r2, NotifyKinds)[i][3] = "ok"
    /\ MaskedInputs(r1) = MaskedInputs(r2)
    /\ Gone(r1) = Gone(r2)
    /\ Responses(r1) = << <<"200", "success", AiText>> >>
    /\ Responses(r2) = Responses(r1)

\* a file of r offended the upload rules: over the size ceiling, or of a MIME
\* type that does not start with "image/"
UploadOffends(r) ==
  \/ HasResult(r, "reject", "fileFilter")
  \/ HasResult(r, "write", "partial")
  \/ reqFiles[r].image # NoFile /\ reqFiles[r].image[1] # "image"
  \/ reqFiles[r].selfie # NoFile /\ reqFiles[r].selfie[1] # "image"

\* C7: a request with an oversized or non-image file is rejected with a 400 or
\* 422 status, and no notification call and no inference call is made for it.
C7_BadUploadRejected ==
  \A r \in Reqs :
    UploadOffends(r) =>
      /\ NoOutboundCall(r)
      /\ Done(r) => /\ Len(Responses(r)) = 1
                    /\ Responses(r)[1][1] \in {"400", "422"}

\* C8 as stated: for every accepted request the inference backend is called
\* exactly once, with the problem image only.
C8_ExactlyOneInferenceCall ==
  \A r \in Reqs :
    Done(r) /\ Accepted(r) =>
      /\ Count(r, "generateContent", "image", "call") = 1
      /\ Count(r, "generateContent", "selfie", "call") = 0

\* C8 amended: for every accepted request analyzeImage is invoked exactly once,
\* on the problem image only, and calls the backend at most once, never again
\* after a failure; it makes no backend call only when it fails before the
\* call (credential missing in the revision that checks it, or the problem
\* image unreadable).  The selfie never reaches the inference client.
C8_SingleInferenceOnProblemImage ==
  \A r \in Reqs :
    Accepted(r) =>
      /\ \A i \in 1..Len(log[r]) :
           log[r][i][1] \in InferenceKinds => log[r][i][2] = "image"
      /\ Count(r, "analyzeImage", "image", "") <= 1
      /\ Count(r, "generateContent", "image", "call") <= 1
      /\ Done(r) =>
           /\ Count(r, "analyzeImage", "image", "") = 1
           /\ Count(r, "generateContent", "image", "call") = 0 =>
                \/ variant = "part_002" /\ ~env.key
                \/ Count(r, "readFile", "image", "ENOENT") = 1

\* C8 witness: an accepted request finished after its one backend call failed.
C8_Witness ==
  \E r \in Reqs :
    /\ Done(r) /\ Accepted(r)
    /\ Count(r, "generateContent", "image", "call") = 1
    /\ Count(r, "generateContent", "image", "fail") = 1
    /\ Has(r, "sendPhoto")

\* inference returned text / failed, for a request whose handler called it
InferenceOk(r) == HasResult(r, "generateContent", "ok")
InferenceFailed(r) == Has(r, "analyzeImage") /\ ~InferenceOk(r)

\* C9: for an accepted request, when inference returns text the response is
\* 200 {success: true, response: text}; when inference fails it is 500
\* {success: false, error} or 200 {success: true, response: placeholder}; no
\* other status or body is produced.
C9_ResponseShapes ==
  \A r \in Reqs :
    Done(r) /\ Accepted(r) =>
      /\ Len(Responses(r)) = 1
      /\ InferenceOk(r) => Responses(r)[1] = <<"200", "success", AiText>>
      /\ InferenceFailed(r) =>
           \/ Responses(r)[1][1] = "500" /\ Responses(r)[1][2] = "error"
           \/ Responses(r)[1] = <<"200", "success", Placeholder>>

\* C10: the notifier makes no outbound call at all when the bot credential or
\* the chat identifier is absent, or when the process is not in production.
C10_NotifierGated ==
  \A r \in Reqs :
    ~env.production \/ ~env.token \/ ~env.chat => Entries(r, NotifyKinds) = <<>>

\* C11: when the inference API credential is missing, analyze fails before the
\* image is read and before any call to the inference backend, and the request
\* ends with a 5xx response.
C11_MissingKeyFailsFast ==
  \A r \in Reqs :
    Accepted(r) /\ ~env.key =>
      /\ ~Has(r, "readFile")
      /\ ~Has(r, "generateContent")
      /\ Done(r) => /\ Len(Responses(r)) = 1
                    /\ Responses(r)[1][1] = "500"

\* the notifications of r in the order they completed, as <<kind, field>>
NotifySeq(r) ==
  LET ns == Entries(r, NotifyKinds)
  IN [i \in 1..Len(ns) |-> <<ns[i][1], ns[i][2]>>]

NotifyOrder ==
  << <<"sendMessage", "">>, <<"sendPhoto", "image">>, <<"sendPhoto", "selfie">> >>

IsPrefix(s, t) == Len(s) <= Len(t) /\ \A i \in 1..Len(s) : s[i] = t[i]

\* no notification of r completes after a response of r was sent
NotifyBeforeResponse(r) ==
  \A i, j \in 1..Len(log[r]) :
    log[r][i][1] = "respond" /\ log[r][j][1] \in NotifyKinds => j < i

\* C12 (as stated): an accepted request that notifies at all has sent the text,
\* then the problem photo, then the selfie photo, all three before its response.
C12_AllThreeBeforeResponse ==
  \A r \in Reqs :
    Accepted(r) /\ Responses(r) # <<>> /\ NotifySeq(r) # <<>> =>
      NotifySeq(r) = NotifyOrder /\ NotifyBeforeResponse(r)

\* C12 (amended): the notifications of an accepted request always complete in
\* the order text, problem photo, selfie photo, one at a time and before the
\* response; when the response is sent the request has sent none of them (the
\* notifier is off), or all three, or in part_002 the text alone.
C12_OrderedBeforeResponse ==
  \A r \in Reqs :
    Accepted(r) =>
      /\ IsPrefix(NotifySeq(r), NotifyOrder)
      /\ NotifyBeforeResponse(r)
      /\ Responses(r) # <<>> =>
           IF variant = "part_002"
             THEN NotifySeq(r) \in {<<>>, SubSeq(NotifyOrder, 1, 1)}
             ELSE NotifySeq(r) \in {<<>>, NotifyOrder}

\* all three notifications were sent in order, the problem photo failed, and
\* the response followed
C12_Witness ==
  \E r \in Reqs :
    /\ Accepted(r) /\ Responses(r) # <<>>
    /\ NotifySeq(r) = NotifyOrder
    /\ Count(r, "sendPhoto", "image", "fail") = 1
    /\ Count(r, "sendPhoto", "selfie", "ok") = 1

\* the files on disk that were stored for request r
OwnFiles(r) == {x \in fs : x[1] = r}

\* everything a run of r takes from outside, in order: what arrived and what
\* its reads and calls returned
OwnInputs(r) ==
  SelectSeq(log[r], LAMBDA e : e[1] \notin {"respond", "unlink", "unhandledRejection"})

\* the step is taken by request q, or removes a file of q from outside
StepOf(q) ==
  \/ pc'[q] # pc[q]
  \/ log'[q] # log[q]
  \/ {x \in gone' : x[1] = q} # {x \in gone : x[1] = q}

\* the step leaves request r and its files as they were
Untouched(r) ==
  /\ pc'[r] = pc[r] /\ log'[r] = log[r]
  /\ reqFiles'[r] = reqFiles[r] /\ reqBody'[r] = reqBody[r]
  /\ problemPath'[r] = problemPath[r] /\ selfiePath'[r] = selfiePath[r]
  /\ {x \in fs' : x[1] = r} = OwnFiles(r)

\* C13: with requests interleaving at every await and no locking, a handler
\* holds only paths of its own request, a step of one request leaves every
\* other request and its files untouched, and requests with the same inputs
\* get the same responses and the same cleanup whatever ran in between.
C13_RequestsIsolated ==
  /\ [](\A r \in Reqs :
          /\ problemPath[r] # NoPath => problemPath[r] = <<r, "image">>
          /\ selfiePath[r] # NoPath => selfiePath[r] = <<r, "selfie">>)
  /\ [][\A q \in Reqs : StepOf(q) => \A r \in Reqs \ {q} : Untouched(r)]_vars
  /\ [](\A r1, r2 \in Reqs :
          /\ Done(r1) /\ Done(r2)
          /\ reqFiles[r1] = reqFiles[r2] /\ reqBody[r1] = reqBody[r2]
          /\ OwnInputs(r1) = OwnInputs(r2) /\ Gone(r1) = Gone(r2)
          => /\ Responses(r1) = Responses(r2)
             /\ Entries(r1, {"unlink"}) = Entries(r2, {"unlink"}))

\* one request has finished with 200 and removed its two files while another
\* accepted request is still waiting for its inference call with both of its
\* files on disk
C13_Witness ==
  \E r1, r2 \in Reqs :
    /\ r1 # r2
    /\ Done(r1) /\ Accepted(r1) /\ Responses(r1) = << <<"200", "success", AiText>> >>
    /\ Count(r1, "unlink", "image", "ok") = 1 /\ Count(r1, "unlink", "selfie", "ok") = 1
    /\ pc[r2] = "generating" /\ Accepted(r2)
    /\ OwnFiles(r2) = {<<r2, "image">>, <<r2, "selfie">>}

\* C14: release is idempotent: releasing a file that is already absent raises
\* nothing, and an accepted request whose inference succeeded gets its 200
\* response even when one of its files is gone at cleanup time.
C14_ReleaseIdempotent ==
  \A r \in Reqs :
    Accepted(r) =>
      /\ ~HasResult(r, "unlink", "ENOENT")
      /\ Done(r) /\ InferenceOk(r) /\ Gone(r) # {} =>
           Responses(r) = << <<"200", "success", AiText>> >>

Pending(r) == pc[r] = "generating"

C16_ProgressUnconditional ==
  \A r \in 1..MaxReq : Pending(r) ~> Done(r)

C17_ImagesBeforeConsent ==
  \A r \in Reqs :
    Done(r) /\ ReachedHandler(r) =>
      /\ ~BothImages(r) /\ reqBody[r].consent # "true" =>
           /\ Len(Responses(r)) = 1
           /\ Responses(r)[1][1] = "400"
      /\ (\E i \in 1..Len(Responses(r)) : Responses(r)[i][1] = "403") => BothImages(r)

\* the steps that read an image file: a photo notification and the inference read
ReadKinds == {"sendPhoto", "readFile"}

\* C18: no use after release: every read of an image file (the photo
\* notifications of both files, the inference read of the problem file) comes
\* before the unlink of that file, and nothing reads a file once it is unlinked.
C18_NoReadAfterUnlink ==
  \A r \in Reqs :
    \A i, j \in 1..Len(log[r]) :
      /\ log[r][i][1] = "unlink"
      /\ log[r][j][1] \in ReadKinds
      /\ log[r][j][2] = log[r][i][2]
      => j < i

\* an accepted request sent both photos, read the problem image for the
\* inference call, and then unlinked both files
C18_Witness ==
  \E r \in Reqs :
    /\ Accepted(r)
    /\ Count(r, "sendPhoto", "image", "ok") = 1
    /\ Count(r, "sendPhoto", "selfie", "ok") = 1
    /\ Count(r, "readFile", "image", "ok") = 1
    /\ Count(r, "unlink", "image", "ok") = 1
    /\ Count(r, "unlink", "selfie", "ok") = 1

====
